---- MODULE Spec2Model ----
(***************************************************************************)
(* The turn-orchestration engine of the Anthropic app's "Generate message" *)
(* block: executeTurn / handleModelResponse / continueTurn and the three   *)
(* entry points the host runtime invokes independently of one another      *)
(* (inputs.default.onEvent, onInternalMessage, onTimer).  Every handler    *)
(* invocation is a process whose steps are its awaited operations on the   *)
(* block's key-value store, the timers, the messaging channel, the pending *)
(* event and the model API, so that invocations interleave between awaits. *)
(* One conversation (one eventId) is modelled.                             *)
(***************************************************************************)
EXTENDS Integers, Sequences, FiniteSets, Bags, TLC

\* ------------------------------------------------------------------ bounds
\* Handler invocations running at the same time.
MaxHandlers == 2
\* Model requests issued over the life of the conversation.
MaxRequests == 2
\* Tool result messages delivered over the life of the conversation.
MaxDeliveries == 2
\* tool_use blocks in one model response.
MaxCalls == 2
\* Largest value of the maxRetries input.
MaxRetriesCfg == 2
\* Model requests issued in the conversations in which no timer fires.
MaxResultRequests == 3
\* Largest value of the maxTokens and thinkingBudget inputs.
MaxTokensCfg == 3
\* Largest value of the maxRetries input where the retry delays are followed.
MaxBackoffRetries == 6
\* Dispatch messages the tool definition block receives.
MaxExecutions == 2
\* Events the processResult input of the tool definition block receives.
MaxProcessed == 2

EventId == "ev"
\* input.block.id of the Generate message block.
BlockId == "generate"
Payloads == {"r1", "r2"}
\* Error messages of a failed model request: one transient, one not.
Errors == {"overloaded", "invalid request"}

VARIABLES
    kv,          \* kv.block: key -> value
    timers,      \* handles of the timers that are scheduled and will fire
    procs,       \* the bag of handler invocations in progress
    config,      \* the app configuration and the input configuration of the event
    rejected,    \* the error onEvent raised on the configuration, "" when none
    pending,     \* whether events.createPending has run
    pendingLog,  \* terminal outcomes given to the pending event, in order
    requests,    \* model requests issued by executeTurn, in order
    dispatched,  \* tool dispatch messages sent to tool blocks, in order
    deliveries,  \* number of tool result messages delivered so far
    dropped,     \* number of them onInternalMessage returned on without acting
    resumes,     \* calls of continueTurn, in order
    executions,  \* kv.block of the tool definition block: executionKey -> record
    onCall,      \* events the tool definition block emitted on "On call", in order
    processed    \* what processResult did with each event it received, in order

toolVars == <<executions, onCall, processed>>
vars == <<kv, timers, procs, config, rejected, pending, pendingLog,
          requests, dispatched, deliveries, dropped, resumes, toolVars>>

\* ------------------------------------------------------- key-value store
CallKey(eventId) == <<"call", eventId>>
ResultPrefix(eventId, turn) == <<"result", eventId, turn>>
ResultKey(eventId, turn, toolCallId) == ResultPrefix(eventId, turn) \o <<toolCallId>>
TimerKey(eventId) == <<"timer", eventId>>
LockKey(eventId) == <<"lock", eventId>>

KvHas(store, key) == key \in DOMAIN store
KvSet(store, key, value) ==
    [k \in DOMAIN store \cup {key} |-> IF k = key THEN value ELSE store[k]]
KvDelete(store, key) == [k \in DOMAIN store \ {key} |-> store[k]]
HasPrefix(key, prefix) ==
    /\ Len(key) >= Len(prefix)
    /\ SubSeq(key, 1, Len(prefix)) = prefix
KvList(store, prefix) == {k \in DOMAIN store : HasPrefix(k, prefix)}

\* ------------------------------------------------------------- messages
TextBlock(t) == [type |-> "text", id |-> 0, text |-> t]
ToolUseBlock(i) == [type |-> "tool_use", id |-> i, text |-> ""]
ToolResultBlock(i, r) == [type |-> "tool_result", id |-> i, text |-> r]
Message(role, content) == [role |-> role, content |-> content]

\* message.usage
Usage(inputTokens, outputTokens) ==
    [input_tokens |-> inputTokens, output_tokens |-> outputTokens]
NoUsage == Usage(0, 0)
\* What the n-th response of the conversation reports as its usage.
TokenUsage(n) == Usage(n, 2 * n)

NoMessage == [stop_reason |-> "", content |-> <<>>, usage |-> NoUsage]
NoCallState ==
    [messages |-> <<>>, toolCallIds |-> <<>>, pendingId |-> "", turn |-> 0,
     maxRetries |-> 0, schema |-> FALSE]

\* The identifiers the model gives the tool calls of its n-th response are fresh.
ToolCallId(n, k) == 10 * n + k

\* What the model may answer to the n-th request.
ToolUseResponses(n) ==
    { [stop_reason |-> "tool_use",
       content |-> [k \in 1..c |-> ToolUseBlock(ToolCallId(n, k))],
       usage |-> TokenUsage(n)] : c \in 0..MaxCalls }
ModelResponses(n) ==
    ToolUseResponses(n) \cup
    { [stop_reason |-> "end_turn",
       content |-> <<TextBlock("draft"), TextBlock("answer")>>,
       usage |-> TokenUsage(n)],
      [stop_reason |-> "end_turn", content |-> <<>>, usage |-> TokenUsage(n)],
      [stop_reason |-> "max_tokens", content |-> <<TextBlock("partial")>>,
       usage |-> TokenUsage(n)] }

\* The object of a result: null, or the input of the forced "json" tool call of
\* an extraction attempt, which validates against the schema or does not.
JsonInput(attempt, valid) == [attempt |-> attempt, valid |-> valid]
NoObject == JsonInput(0, FALSE)

\* ------------------------------------------------------------- handlers
\* A handler invocation: where it is and what it holds in its local variables.
Handler(kind, pc) ==
    [kind |-> kind, pc |-> pc, toolCallId |-> 0, result |-> "",
     cs |-> NoCallState, timerVal |-> 0, timerId |-> 0,
     turn |-> 0, messages |-> <<>>, maxRetries |-> 0, retryCount |-> 0,
     lastError |-> "", message |-> NoMessage, schema |-> FALSE,
     finalText |-> "", object |-> NoObject, inputTokens |-> 0, outputTokens |-> 0,
     attempts |-> <<>>, delay |-> 0]

Running == BagToSet(procs)
Invoke(h) ==
    /\ BagCardinality(procs) < MaxHandlers
    /\ procs' = procs (+) SetToBag({h})
Goto(h, next) == procs' = (procs (-) SetToBag({h})) (+) SetToBag({next})
Exit(h) == procs' = procs (-) SetToBag({h})

\* The handler's body returned: onTimer still has its final clearTimerLock to run.
Return(h) == IF h.kind = "timer" THEN Goto(h, Handler("timer", "t_unlock")) ELSE Exit(h)

\* What the pending event is given: events.cancelPending(pendingId, reason: detail)
\* or events.emit({text, object, usage}, {complete: pendingId}).
Outcome(kind, reason, detail) ==
    [kind |-> kind, reason |-> reason, detail |-> detail, object |-> NoObject,
     usage |-> NoUsage]
Completed(text, object, inputTokens, outputTokens) ==
    [kind |-> "complete", reason |-> "", detail |-> text, object |-> object,
     usage |-> Usage(inputTokens, outputTokens)]

\* timers.set returns a handle nobody holds: the least one that is neither
\* scheduled, nor stored, nor in a handler's local variable.
HeldTimerIds ==
    timers \cup {h.timerVal : h \in Running} \cup {h.timerId : h \in Running}
        \cup (IF KvHas(kv, TimerKey(EventId)) THEN {kv[TimerKey(EventId)]} ELSE {})
NewTimerId == CHOOSE i \in 1..(Cardinality(HeldTimerIds) + 1) :
                  /\ i \notin HeldTimerIds
                  /\ \A j \in 1..(i - 1) : j \in HeldTimerIds

\* An optional configuration value: undefined, or the value given.
Undefined == <<>>
Optional(values) == {Undefined} \cup {<<v>> : v \in values}

\* The configurations an event may come with. schema tells whether one is given.
Configs ==
    [anthropicApiKey : Optional({"sk"}),
     defaultModel : Optional({"claude-default"}),
     model : Optional({"claude"}),
     thinking : BOOLEAN,
     thinkingBudget : Optional(0..MaxTokensCfg),
     maxTokens : 1..MaxTokensCfg,
     maxRetries : Optional(0..MaxRetriesCfg),
     schema : BOOLEAN]

\* Mutant: the thinking budget is not compared with max tokens.
ValidateConfig_BudgetUnchecked(c) ==
    LET model == IF c.model # Undefined THEN c.model ELSE c.defaultModel IN
    IF c.anthropicApiKey = Undefined
    THEN [error |-> "Anthropic API key is required", model |-> Undefined,
          maxRetries |-> 0, schema |-> FALSE]
    ELSE IF model = Undefined
    THEN [error |-> "Model is required", model |-> Undefined,
          maxRetries |-> 0, schema |-> FALSE]
    ELSE [error |-> "", model |-> model,
          maxRetries |-> IF c.maxRetries = Undefined THEN 1 ELSE c.maxRetries[1],
          schema |-> c.schema]

\* validateConfig: the error it throws, or the configuration it returns.
ValidateConfig(c) ==
    LET model == IF c.model # Undefined THEN c.model ELSE c.defaultModel IN
    IF c.anthropicApiKey = Undefined
    THEN [error |-> "Anthropic API key is required", model |-> Undefined,
          maxRetries |-> 0, schema |-> FALSE]
    ELSE IF model = Undefined
    THEN [error |-> "Model is required", model |-> Undefined,
          maxRetries |-> 0, schema |-> FALSE]
    ELSE IF /\ c.thinking
            /\ \/ c.thinkingBudget \in {Undefined, <<0>>}
               \/ c.thinkingBudget[1] >= c.maxTokens
    THEN [error |-> "You need to set thinking budget to a value less than max tokens",
          model |-> Undefined, maxRetries |-> 0, schema |-> FALSE]
    ELSE [error |-> "", model |-> model,
          maxRetries |-> IF c.maxRetries = Undefined THEN 1 ELSE c.maxRetries[1],
          schema |-> c.schema]

\* Before the event: nothing stored, nothing scheduled, nothing running.
InitState ==
    /\ kv = <<>>
    /\ timers = {}
    /\ procs = EmptyBag
    /\ rejected = ""
    /\ pending = FALSE
    /\ pendingLog = <<>>
    /\ requests = <<>>
    /\ dispatched = <<>>
    /\ deliveries = 0
    /\ dropped = 0
    /\ resumes = <<>>
    /\ executions = <<>>
    /\ onCall = <<>>
    /\ processed = <<>>

\* The event comes with a configuration that names the model, gives the number
\* of attempts, asks for a schema or not, and leaves thinking off.
Init ==
    /\ InitState
    /\ config \in {c \in Configs :
                       /\ c.anthropicApiKey # Undefined /\ c.defaultModel = Undefined
                       /\ c.model # Undefined /\ c.maxRetries # Undefined
                       /\ ~c.thinking /\ c.thinkingBudget = Undefined
                       /\ c.maxTokens = MaxTokensCfg}

\* ---------------------------------------------------------- executeTurn
ExecuteTurn(h, turn, messages, maxRetries) ==
    [Handler(h.kind, IF 0 < maxRetries THEN "x_request" ELSE "x_cancel")
        EXCEPT !.turn = turn, !.messages = messages, !.maxRetries = maxRetries,
               !.schema = h.schema]

\* inputs.default.onEvent: validateConfig, createPending, then the first turn.
Start ==
    /\ ~pending
    /\ rejected = ""
    /\ LET valid == ValidateConfig(config) IN
       IF valid.error # ""
       THEN /\ rejected' = valid.error
            /\ UNCHANGED <<pending, procs>>
       ELSE /\ pending' = TRUE
            /\ Invoke(ExecuteTurn([Handler("event", "start") EXCEPT !.schema = valid.schema],
                                  0, <<Message("user", <<TextBlock("prompt")>>)>>,
                                  valid.maxRetries))
            /\ UNCHANGED rejected
    /\ UNCHANGED <<kv, timers, config, pendingLog, requests, dispatched, deliveries,
                   dropped, resumes, toolVars>>

\* Mutant: the text of the first text block.
FindLastText_First(content) ==
    LET idx == {i \in 1..Len(content) : content[i].type = "text"}
    IN  IF idx = {} THEN "" ELSE content[CHOOSE i \in idx : \A j \in idx : i <= j].text

\* message.content.findLast((content) => content.type === "text")?.text
FindLastText(content) ==
    LET idx == {i \in 1..Len(content) : content[i].type = "text"}
    IN  IF idx = {} THEN "" ELSE content[CHOOSE i \in idx : \A j \in idx : j <= i].text

\* generateObject starts: its own retry counter, the end_turn response's usage.
GenerateObject(h, finalText, message) ==
    [Handler(h.kind, IF 0 < h.maxRetries THEN "g_request" ELSE "g_cancel")
        EXCEPT !.maxRetries = h.maxRetries, !.messages = h.messages,
               !.message = message, !.finalText = finalText,
               !.inputTokens = message.usage.input_tokens,
               !.outputTokens = message.usage.output_tokens]

\* Where handleModelResponse goes for a response.
HandleModelResponse(h, message) ==
    IF message.stop_reason = "end_turn"
    THEN IF FindLastText(message.content) = ""
         THEN [h EXCEPT !.pc = "throw"]
         ELSE IF h.schema
              THEN GenerateObject(h, FindLastText(message.content), message)
              ELSE [h EXCEPT !.pc = "h_emit", !.message = message]
    ELSE IF message.stop_reason = "tool_use"
         THEN [h EXCEPT !.pc = "h_send", !.message = message]
         ELSE [h EXCEPT !.pc = "h_cancel"]

Request(h) == [turn |-> h.turn, messages |-> h.messages, by |-> h.kind]

\* The request succeeds and its final message is handed to handleModelResponse,
\* whose promise executeTurn returns without awaiting it: an error raised in
\* handleModelResponse leaves executeTurn past its catch block.
Responds(limit) ==
    \E h \in Running :
      /\ h.pc = "x_request"
      /\ Len(requests) < limit
      /\ \E message \in ModelResponses(Len(requests) + 1) :
           LET next == HandleModelResponse(h, message) IN
           IF next.pc = "throw" THEN Exit(h) ELSE Goto(h, next)
      /\ requests' = Append(requests, Request(h))
      /\ UNCHANGED <<kv, timers, config, rejected, toolVars, pending, pendingLog, dispatched, deliveries,
                     dropped, resumes>>

ModelResponds == Responds(MaxRequests)

\* Mutant: no error is taken for a transient one.
IsRetryable_Never(errorMessage) == FALSE
\* Mutant: every error is taken for a transient one.
IsRetryable_Always(errorMessage) == TRUE

IsRetryable(errorMessage) ==
    errorMessage \in {"overloaded", "rate limit", "timeout", "502", "503", "504"}

\* Mutant: the delay doubles without a cap.
Backoff_Uncapped(retryCount) == 1000 * 2 ^ (retryCount - 1)

\* Math.min(1000 * Math.pow(2, retryCount - 1), 10000), in milliseconds.
Backoff(retryCount) ==
    LET delay == 1000 * 2 ^ (retryCount - 1)
    IN  IF delay < 10000 THEN delay ELSE 10000

\* The request fails: the catch block of executeTurn. Before a retry the
\* handler waits for the backoff delay; delay is the one it waited for last.
Fails(limit) ==
    \E h \in Running :
      /\ h.pc = "x_request"
      /\ Len(requests) < limit
      /\ \E error \in Errors :
           LET retryCount == h.retryCount + 1 IN
           Goto(h, IF ~IsRetryable(error) \/ retryCount >= h.maxRetries
                   THEN [h EXCEPT !.lastError = error, !.retryCount = retryCount,
                                  !.pc = "x_cancel"]
                   ELSE [h EXCEPT !.lastError = error, !.retryCount = retryCount,
                                  !.delay = Backoff(retryCount)])
      /\ requests' = Append(requests, Request(h))
      /\ UNCHANGED <<kv, timers, config, rejected, toolVars, pending, pendingLog, dispatched, deliveries,
                     dropped, resumes>>

ModelFails == Fails(MaxRequests)

\* "All retries failed": cancelPending, deleteCallState, throw.
FailCancel ==
    \E h \in Running :
      /\ h.pc = "x_cancel"
      /\ pendingLog' = Append(pendingLog,
             Outcome("cancel", "API call failed",
                     IF h.lastError = "" THEN "Unknown error" ELSE h.lastError))
      /\ Goto(h, Handler(h.kind, "x_delete"))
      /\ UNCHANGED <<kv, timers, config, rejected, toolVars, pending, requests, dispatched, deliveries,
                     dropped, resumes>>

FailDelete ==
    \E h \in Running :
      /\ h.pc = "x_delete"
      /\ kv' = KvDelete(kv, CallKey(EventId))
      /\ Exit(h)
      /\ UNCHANGED <<timers, config, rejected, toolVars, pending, pendingLog, requests, dispatched, deliveries,
                     dropped, resumes>>

\* -------------------------------------------------- handleModelResponse
EmitResult ==
    \E h \in Running :
      /\ h.pc = "h_emit"
      /\ pendingLog' = Append(pendingLog,
             Completed(FindLastText(h.message.content), NoObject,
                       h.message.usage.input_tokens, h.message.usage.output_tokens))
      /\ Return(h)
      /\ UNCHANGED <<kv, timers, config, rejected, toolVars, pending, requests, dispatched, deliveries,
                     dropped, resumes>>

ToolCalls(message) ==
    LET idx == {i \in 1..Len(message.content) : message.content[i].type = "tool_use"}
    IN  [k \in 1..Cardinality(idx) |->
            message.content[CHOOSE i \in idx : Cardinality({j \in idx : j <= i}) = k]]

\* Mutant: only the first tool call is dispatched.
DispatchMessages_FirstOnly(toolCalls) ==
    [k \in 1..(IF Len(toolCalls) = 0 THEN 0 ELSE 1) |->
        [blockId |-> BlockId, eventId |-> EventId, toolCallId |-> toolCalls[k].id]]

ToolCallIds(toolCalls) == [k \in 1..Len(toolCalls) |-> toolCalls[k].id]

DispatchMessages(toolCalls) ==
    [k \in 1..Len(toolCalls) |->
        [blockId |-> BlockId, eventId |-> EventId, toolCallId |-> toolCalls[k].id]]

\* Promise.all of messaging.sendToBlocks, one message per tool call.
SendToBlocks ==
    \E h \in Running :
      /\ h.pc = "h_send"
      /\ dispatched' = dispatched \o DispatchMessages(ToolCalls(h.message))
      /\ Goto(h, [h EXCEPT !.pc = "h_store"])
      /\ UNCHANGED <<kv, timers, config, rejected, toolVars, pending, pendingLog, requests, deliveries,
                     dropped, resumes>>

NewCallState(h) ==
    [messages |-> Append(h.messages, Message("assistant", h.message.content)),
     toolCallIds |-> ToolCallIds(ToolCalls(h.message)),
     pendingId |-> "pending",
     turn |-> h.turn + 1,
     maxRetries |-> h.maxRetries,
     schema |-> h.schema]

StoreCallState ==
    \E h \in Running :
      /\ h.pc = "h_store"
      /\ kv' = KvSet(kv, CallKey(EventId), NewCallState(h))
      /\ Goto(h, Handler(h.kind, "s_tset"))
      /\ UNCHANGED <<timers, config, rejected, toolVars, pending, pendingLog, requests, dispatched, deliveries,
                     dropped, resumes>>

\* setTimeoutTimer: timers.set, ...
TimersSet ==
    \E h \in Running :
      /\ h.pc = "s_tset"
      /\ timers' = timers \cup {NewTimerId}
      /\ Goto(h, [h EXCEPT !.pc = "s_tkv", !.timerId = NewTimerId])
      /\ UNCHANGED <<kv, config, rejected, toolVars, pending, pendingLog, requests, dispatched, deliveries,
                     dropped, resumes>>

\* ... then the handle is stored under timer-<eventId>.
StoreTimerHandle ==
    \E h \in Running :
      /\ h.pc = "s_tkv"
      /\ kv' = KvSet(kv, TimerKey(EventId), h.timerId)
      /\ Return(h)
      /\ UNCHANGED <<timers, config, rejected, toolVars, pending, pendingLog, requests, dispatched, deliveries,
                     dropped, resumes>>

\* Any other stop reason: cancelPending, then deleteCallState.
CancelUnexpected ==
    \E h \in Running :
      /\ h.pc = "h_cancel"
      /\ pendingLog' = Append(pendingLog,
             Outcome("cancel", "Unexpected response from model", ""))
      /\ Goto(h, Handler(h.kind, "h_delete"))
      /\ UNCHANGED <<kv, timers, config, rejected, toolVars, pending, requests, dispatched, deliveries,
                     dropped, resumes>>

DeleteCallState ==
    \E h \in Running :
      /\ h.pc = "h_delete"
      /\ kv' = KvDelete(kv, CallKey(EventId))
      /\ Return(h)
      /\ UNCHANGED <<timers, config, rejected, toolVars, pending, pendingLog, requests, dispatched, deliveries,
                     dropped, resumes>>

\* ------------------------------------------------------- generateObject
\* What the k-th extraction attempt of a turn may be answered: the forced json
\* tool call with an input that validates or not, or no tool call at all.
ObjectUsage(k) == Usage(10 * k, k)
ObjectResponses(k) ==
    { [stop_reason |-> "tool_use", input |-> JsonInput(k, valid),
       usage |-> ObjectUsage(k)] : valid \in BOOLEAN }
    \cup { [stop_reason |-> "max_tokens", input |-> NoObject, usage |-> ObjectUsage(k)] }

\* validator.validate(toolCall.input, schema).errors.length === 0
Validate(input) == input.valid

\* Mutant: only the last attempt's usage is added to the end_turn response's.
AddUsage_LastOnly(h, message) ==
    LET last == IF h.attempts = <<>> THEN NoUsage ELSE h.attempts[Len(h.attempts)].usage
    IN  [h EXCEPT !.inputTokens = @ - last.input_tokens + message.usage.input_tokens,
                  !.outputTokens = @ - last.output_tokens + message.usage.output_tokens,
                  !.attempts = Append(@, message)]

\* inputTokens += message.usage.input_tokens; outputTokens += ...; attempts is
\* the list of the responses received so far.
AddUsage(h, message) ==
    [h EXCEPT !.inputTokens = @ + message.usage.input_tokens,
              !.outputTokens = @ + message.usage.output_tokens,
              !.attempts = Append(@, message)]

\* Mutant: the loop of generateObject goes on whatever the number of attempts.
NextAttempt_Unbounded(h) == [h EXCEPT !.retryCount = @ + 1, !.pc = "g_request"]

\* retryCount++, and the loop condition.
NextAttempt(h) ==
    [h EXCEPT !.retryCount = @ + 1,
              !.pc = IF h.retryCount + 1 < h.maxRetries THEN "g_request" ELSE "g_cancel"]

\* An extraction attempt is answered.
ObjectResponds ==
    \E h \in Running :
      /\ h.pc = "g_request"
      /\ \E message \in ObjectResponses(h.retryCount + 1) :
           LET acc == AddUsage(h, message) IN
           Goto(h, IF message.stop_reason = "tool_use" /\ Validate(message.input)
                   THEN [acc EXCEPT !.pc = "g_emit", !.object = message.input]
                   ELSE NextAttempt(acc))
      /\ UNCHANGED <<kv, timers, config, rejected, toolVars, pending, pendingLog, requests, dispatched,
                     deliveries, dropped, resumes>>

\* An extraction attempt raises: the catch block of generateObject.
ObjectFails ==
    \E h \in Running :
      /\ h.pc = "g_request"
      /\ \E error \in Errors : Goto(h, NextAttempt([h EXCEPT !.lastError = error]))
      /\ UNCHANGED <<kv, timers, config, rejected, toolVars, pending, pendingLog, requests, dispatched,
                     deliveries, dropped, resumes>>

\* return emitResult(pendingId, {text: finalText, object: toolCall.input, usage})
ObjectEmit ==
    \E h \in Running :
      /\ h.pc = "g_emit"
      /\ pendingLog' = Append(pendingLog,
             Completed(h.finalText, h.object, h.inputTokens, h.outputTokens))
      /\ Return(h)
      /\ UNCHANGED <<kv, timers, config, rejected, toolVars, pending, requests, dispatched, deliveries,
                     dropped, resumes>>

\* "All retries failed": cancelPending, and lastError is thrown when there is one.
ObjectCancel ==
    \E h \in Running :
      /\ h.pc = "g_cancel"
      /\ pendingLog' = Append(pendingLog,
             IF h.lastError # ""
             THEN Outcome("cancel", "Object generation failed", h.lastError)
             ELSE Outcome("cancel", "Failed to generate object", ""))
      /\ IF h.lastError # "" THEN Exit(h) ELSE Return(h)
      /\ UNCHANGED <<kv, timers, config, rejected, toolVars, pending, requests, dispatched, deliveries,
                     dropped, resumes>>

\* ------------------------------------------------------ result aggregator
\* Mutant: the fragments are listed by conversation, whatever their turn.
LoadToolResults_AnyTurn(store, eventId, turn, toolCallIds) ==
    LET pairs == KvList(store, <<"result", eventId>>)
        toolResults ==
            [id \in {store[k].toolCallId : k \in pairs} |->
                store[CHOOSE k \in pairs : store[k].toolCallId = id].result]
    IN  [haveAllResults |->
            \A i \in 1..Len(toolCallIds) : toolCallIds[i] \in DOMAIN toolResults,
         toolResults |-> toolResults]

LoadToolResults(store, eventId, turn, toolCallIds) ==
    LET pairs == KvList(store, ResultPrefix(eventId, turn))
        toolResults ==
            [id \in {store[k].toolCallId : k \in pairs} |->
                store[CHOOSE k \in pairs : store[k].toolCallId = id].result]
    IN  [haveAllResults |->
            \A i \in 1..Len(toolCallIds) : toolCallIds[i] \in DOMAIN toolResults,
         toolResults |-> toolResults]

\* Mutant: the tool results are listed from the last tool call to the first.
ToolResultBlocks_Reversed(toolCallIds, toolResults) ==
    LET n == Len(toolCallIds)
        present == {k \in 1..n : toolCallIds[n + 1 - k] \in DOMAIN toolResults}
    IN  [k \in 1..Cardinality(present) |->
            LET j == CHOOSE i \in present : Cardinality({l \in present : l <= i}) = k
            IN  ToolResultBlock(toolCallIds[n + 1 - j], toolResults[toolCallIds[n + 1 - j]])]

RECURSIVE ToolResultBlocks(_, _)
ToolResultBlocks(toolCallIds, toolResults) ==
    IF toolCallIds = <<>> THEN <<>>
    ELSE LET id == Head(toolCallIds)
             rest == ToolResultBlocks(Tail(toolCallIds), toolResults)
         IN  IF id \in DOMAIN toolResults
             THEN <<ToolResultBlock(id, toolResults[id])>> \o rest
             ELSE rest

\* Mutant: the timer handler resumes with the turn counter of a first turn.
ContinueTurn_TimerFromZero(h, toolResults) ==
    ExecuteTurn([h EXCEPT !.schema = h.cs.schema],
                IF h.kind = "timer" THEN 0 ELSE h.cs.turn,
                Append(h.cs.messages,
                       Message("user", ToolResultBlocks(h.cs.toolCallIds, toolResults))),
                h.cs.maxRetries)

\* continueTurn: the persisted history plus one user message of tool results,
\* then executeTurn with the persisted turn counter.
ContinueTurn(h, toolResults) ==
    ExecuteTurn([h EXCEPT !.schema = h.cs.schema], h.cs.turn,
                Append(h.cs.messages,
                       Message("user", ToolResultBlocks(h.cs.toolCallIds, toolResults))),
                h.cs.maxRetries)

\* A call of continueTurn: the suspension resumed, the handler and its message.
Resume(h) ==
    [turn |-> h.cs.turn, toolCallIds |-> h.cs.toolCallIds, by |-> h.kind,
     toolCallId |-> h.toolCallId, result |-> h.result]

\* ----------------------------------------------------- onInternalMessage
DispatchedIds == {dispatched[i].toolCallId : i \in 1..Len(dispatched)}

\* The payloads the next result message may carry. Payloads are opaque and their
\* names interchangeable: the first message delivered carries the first of them.
NextPayloads == IF deliveries = 0 THEN {"r1"} ELSE Payloads

\* A tool block answers a dispatch message (at least once, possibly more often,
\* possibly never): the runtime invokes onInternalMessage.
Deliver ==
    /\ deliveries < MaxDeliveries
    /\ \E id \in DispatchedIds, result \in NextPayloads :
         Invoke([Handler("msg", "m_lock") EXCEPT !.toolCallId = id, !.result = result])
    /\ deliveries' = deliveries + 1
    /\ UNCHANGED <<kv, timers, config, rejected, toolVars, pending, pendingLog, requests, dispatched, dropped,
                   resumes>>

\* Mutant: the guard is never seen as held.
IsTimerLocked_Never(store, eventId) == FALSE

IsTimerLocked(store, eventId) == KvHas(store, LockKey(eventId))

MsgCheckLock ==
    \E h \in Running :
      /\ h.pc = "m_lock"
      /\ IF IsTimerLocked(kv, EventId)
         THEN Exit(h) /\ dropped' = dropped + 1
         ELSE Goto(h, [h EXCEPT !.pc = "m_load"]) /\ dropped' = dropped
      /\ UNCHANGED <<kv, timers, config, rejected, toolVars, pending, pendingLog, requests, dispatched,
                     deliveries, resumes>>

\* loadCallState throws "Call state not found" when the key is absent.
LoadCallState ==
    \E h \in Running :
      /\ h.pc \in {"m_load", "t_load"}
      /\ IF KvHas(kv, CallKey(EventId))
         THEN Goto(h, [h EXCEPT !.cs = kv[CallKey(EventId)],
                                !.pc = IF h.kind = "msg" THEN "m_tget" ELSE "t_list"])
         ELSE Exit(h)
      /\ UNCHANGED <<kv, timers, config, rejected, toolVars, pending, pendingLog, requests, dispatched,
                     deliveries, dropped, resumes>>

\* clearTimeoutTimer: read the stored handle, ...
ReadTimerHandle ==
    \E h \in Running :
      /\ h.pc = "m_tget"
      /\ IF KvHas(kv, TimerKey(EventId))
         THEN Goto(h, [h EXCEPT !.timerVal = kv[TimerKey(EventId)], !.pc = "m_unset"])
         ELSE Goto(h, [h EXCEPT !.pc = "m_store"])
      /\ UNCHANGED <<kv, timers, config, rejected, toolVars, pending, pendingLog, requests, dispatched,
                     deliveries, dropped, resumes>>

\* ... and unset it when there is one.
TimersUnset ==
    \E h \in Running :
      /\ h.pc = "m_unset"
      /\ timers' = timers \ {h.timerVal}
      /\ Goto(h, [h EXCEPT !.timerVal = 0, !.pc = "m_store"])
      /\ UNCHANGED <<kv, config, rejected, toolVars, pending, pendingLog, requests, dispatched, deliveries,
                     dropped, resumes>>

StoreToolResult ==
    \E h \in Running :
      /\ h.pc = "m_store"
      /\ kv' = KvSet(kv, ResultKey(EventId, h.cs.turn, h.toolCallId),
                     [toolCallId |-> h.toolCallId, result |-> h.result])
      /\ Goto(h, [h EXCEPT !.pc = "m_list"])
      /\ UNCHANGED <<timers, config, rejected, toolVars, pending, pendingLog, requests, dispatched, deliveries,
                     dropped, resumes>>

\* Mutant: onTimer resumes the turn whether or not the results are complete.
Aggregate_TimerResumes ==
    \E h \in Running :
      LET r == LoadToolResults(kv, EventId, h.cs.turn, h.cs.toolCallIds) IN
      /\ h.pc \in {"m_list", "t_list"}
      /\ Goto(h, IF r.haveAllResults \/ h.kind = "timer" THEN ContinueTurn(h, r.toolResults)
                 ELSE Handler("msg", "s_tset"))
      /\ resumes' = IF r.haveAllResults \/ h.kind = "timer"
                    THEN Append(resumes, Resume(h)) ELSE resumes
      /\ UNCHANGED <<kv, timers, config, rejected, toolVars, pending, pendingLog, requests, dispatched, deliveries,
                     dropped>>

\* loadToolResults, then the branch both handlers take on haveAllResults.
Aggregate ==
    \E h \in Running :
      LET r == LoadToolResults(kv, EventId, h.cs.turn, h.cs.toolCallIds) IN
      /\ h.pc \in {"m_list", "t_list"}
      /\ Goto(h, IF r.haveAllResults THEN ContinueTurn(h, r.toolResults)
                 ELSE IF h.kind = "msg" THEN Handler("msg", "s_tset")
                 ELSE Handler("timer", "t_clear"))
      /\ resumes' = IF r.haveAllResults THEN Append(resumes, Resume(h)) ELSE resumes
      /\ UNCHANGED <<kv, timers, config, rejected, toolVars, pending, pendingLog, requests, dispatched,
                     deliveries, dropped>>

\* ---------------------------------------------------------------- onTimer
\* A scheduled timer fires: the runtime invokes onTimer.
TimerFires ==
    /\ \E id \in timers : timers' = timers \ {id}
    /\ Invoke(Handler("timer", "t_lock"))
    /\ UNCHANGED <<kv, config, rejected, toolVars, pending, pendingLog, requests, dispatched, deliveries,
                   dropped, resumes>>

SetTimerLock ==
    \E h \in Running :
      /\ h.pc = "t_lock"
      /\ kv' = KvSet(kv, LockKey(EventId), TRUE)
      /\ Goto(h, [h EXCEPT !.pc = "t_load"])
      /\ UNCHANGED <<timers, config, rejected, toolVars, pending, pendingLog, requests, dispatched, deliveries,
                     dropped, resumes>>

\* clearTimerLock: before cancelPending when the results are incomplete, and as
\* the last statement of onTimer after continueTurn has returned.
ClearTimerLock ==
    \E h \in Running :
      /\ h.pc \in {"t_clear", "t_unlock"}
      /\ kv' = KvDelete(kv, LockKey(EventId))
      /\ IF h.pc = "t_clear" THEN Goto(h, [h EXCEPT !.pc = "t_cancel"]) ELSE Exit(h)
      /\ UNCHANGED <<timers, config, rejected, toolVars, pending, pendingLog, requests, dispatched, deliveries,
                     dropped, resumes>>

\* cancelPending(pendingId, "Timeout")
CancelTimeout ==
    \E h \in Running :
      /\ h.pc = "t_cancel"
      /\ pendingLog' = Append(pendingLog, Outcome("cancel", "Timeout", ""))
      /\ Exit(h)
      /\ UNCHANGED <<kv, timers, config, rejected, toolVars, pending, requests, dispatched, deliveries,
                     dropped, resumes>>

\* ----------------------------------------------------------------- expiry
\* Mutant: the lock is stored without a ttl.
LockExpires_Never == FALSE /\ UNCHANGED vars

\* The lock and the fragments are stored with a ttl: the store drops them.
LockExpires ==
    /\ KvHas(kv, LockKey(EventId))
    /\ kv' = KvDelete(kv, LockKey(EventId))
    /\ UNCHANGED <<timers, procs, config, rejected, toolVars, pending, pendingLog, requests, dispatched,
                   deliveries, dropped, resumes>>

FragmentExpires ==
    /\ \E k \in DOMAIN kv :
         /\ k[1] = "result"
         /\ kv' = KvDelete(kv, k)
    /\ UNCHANGED <<timers, procs, config, rejected, toolVars, pending, pendingLog, requests, dispatched,
                   deliveries, dropped, resumes>>

\* -------------------------------------------------- tool definition block
ExecutionKey(executionId) == <<"execution", executionId>>

\* The dispatch messages the tool block may receive: those of the conversation
\* and one of another Generate message block calling the same tool.
OtherDispatch == [blockId |-> "other", eventId |-> "ev2", toolCallId |-> ToolCallId(1, 1)]
ToolInbox == {dispatched[i] : i \in 1..Len(dispatched)} \cup {OtherDispatch}

\* toolDefinition.onInternalMessage: the execution is recorded under a fresh
\* key, which the "On call" event carries and its echo brings back.
ToolCalled ==
    /\ Len(onCall) < MaxExecutions
    /\ \E message \in ToolInbox :
         LET executionKey == ExecutionKey(Len(onCall) + 1) IN
         /\ executions' = KvSet(executions, executionKey,
                                [eventId |-> message.eventId,
                                 toolCallId |-> message.toolCallId,
                                 blockId |-> message.blockId])
         /\ onCall' = Append(onCall, [executionKey |-> executionKey,
                                      parentEventId |-> message.eventId])
    /\ UNCHANGED <<kv, timers, procs, config, rejected, pending, pendingLog, requests,
                   dispatched, deliveries, dropped, resumes, processed>>

\* The value of the result input: a string, or something else.
StringValue(s) == [type |-> "string", str |-> s, num |-> 0]
NumberValue(n) == [type |-> "number", str |-> "", num |-> n]
BooleanValue(b) == [type |-> "boolean", str |-> "", num |-> IF b THEN 1 ELSE 0]
ResultValues == {StringValue("r1"), StringValue("7"), NumberValue(7), BooleanValue(TRUE)}

JsonStringify(value) ==
    IF value.type = "number" THEN ToString(value.num)
    ELSE IF value.type = "boolean" THEN (IF value.num = 1 THEN "true" ELSE "false")
    ELSE "\"" \o value.str \o "\""

\* typeof config.result === "string" ? config.result : JSON.stringify(config.result)
Stringify(value) == IF value.type = "string" THEN value.str ELSE JsonStringify(value)

\* Mutant: the result goes to the block of the conversation modelled here.
ResultMessage_ToBlock(value, result) ==
    [blockIds |-> <<BlockId>>,
     body |-> [result |-> result, eventId |-> value.eventId,
               toolCallId |-> value.toolCallId]]

\* messaging.sendToBlocks({body: {result, eventId, toolCallId}, blockIds: [blockId]})
ResultMessage(value, result) ==
    [blockIds |-> <<value.blockId>>,
     body |-> [result |-> result, eventId |-> value.eventId,
               toolCallId |-> value.toolCallId]]

\* An event without echo: the input was called directly.
NoEcho == <<"direct">>

\* processResult.onEvent: for the echo of an "On call" event whose execution is
\* still recorded, the result is sent to the caller and emitted; for one whose
\* record is gone nothing is done; an event that is no echo raises.
ProcessResult ==
    /\ Len(processed) < MaxProcessed
    /\ \E echo \in {NoEcho} \cup {onCall[i].executionKey : i \in 1..Len(onCall)},
          result \in ResultValues :
         processed' = Append(processed,
             IF echo = NoEcho
             THEN [echo |-> echo, result |-> result, raised |-> TRUE,
                   sent |-> <<>>, emitted |-> <<>>]
             ELSE IF KvHas(executions, echo)
             THEN [echo |-> echo, result |-> result, raised |-> FALSE,
                   sent |-> <<ResultMessage(executions[echo], Stringify(result))>>,
                   emitted |-> <<Stringify(result)>>]
             ELSE [echo |-> echo, result |-> result, raised |-> FALSE,
                   sent |-> <<>>, emitted |-> <<>>])
    /\ UNCHANGED <<kv, timers, procs, config, rejected, pending, pendingLog, requests,
                   dispatched, deliveries, dropped, resumes, executions, onCall>>

\* The execution records are stored with a ttl of one hour.
ExecutionExpires ==
    /\ \E k \in DOMAIN executions : executions' = KvDelete(executions, k)
    /\ UNCHANGED <<kv, timers, procs, config, rejected, pending, pendingLog, requests,
                   dispatched, deliveries, dropped, resumes, onCall, processed>>

Next ==
    \/ Start
    \/ ModelResponds
    \/ ModelFails
    \/ FailCancel
    \/ FailDelete
    \/ EmitResult
    \/ SendToBlocks
    \/ StoreCallState
    \/ TimersSet
    \/ StoreTimerHandle
    \/ CancelUnexpected
    \/ DeleteCallState
    \/ ObjectResponds
    \/ ObjectFails
    \/ ObjectEmit
    \/ ObjectCancel
    \/ Deliver
    \/ MsgCheckLock
    \/ LoadCallState
    \/ ReadTimerHandle
    \/ TimersUnset
    \/ StoreToolResult
    \/ Aggregate
    \/ TimerFires
    \/ SetTimerLock
    \/ ClearTimerLock
    \/ CancelTimeout
    \/ LockExpires
    \/ FragmentExpires

Spec == Init /\ [][Next]_vars

\* The conversations in which every request is answered, tool results arrive,
\* no timer fires and nothing expires: these go one request further.
InitResults == Init /\ config.maxRetries = <<1>> /\ ~config.schema
RespondsInResults == Responds(MaxResultRequests)
NextResults ==
    \/ Start
    \/ RespondsInResults
    \/ EmitResult
    \/ SendToBlocks
    \/ StoreCallState
    \/ TimersSet
    \/ StoreTimerHandle
    \/ CancelUnexpected
    \/ DeleteCallState
    \/ Deliver
    \/ MsgCheckLock
    \/ LoadCallState
    \/ ReadTimerHandle
    \/ TimersUnset
    \/ StoreToolResult
    \/ Aggregate
SpecResults == InitResults /\ [][NextResults]_vars

\* The events that come with any configuration, until the first response is
\* acted upon.
InitConfig ==
    /\ InitState
    /\ config \in {c \in Configs : ~c.schema /\ c.maxRetries \in {Undefined, <<0>>}}
NextConfig ==
    \/ Start
    \/ ModelResponds
    \/ FailCancel
    \/ FailDelete
    \/ EmitResult
    \/ CancelUnexpected
    \/ DeleteCallState
SpecConfig == InitConfig /\ [][NextConfig]_vars

\* The conversations in which every request is answered and no fragment
\* expires, with the timer: a lock that is held is dropped by the store when
\* its ttl of five minutes is over.
NextExpiry ==
    \/ Start
    \/ ModelResponds
    \/ EmitResult
    \/ SendToBlocks
    \/ StoreCallState
    \/ TimersSet
    \/ StoreTimerHandle
    \/ CancelUnexpected
    \/ DeleteCallState
    \/ Deliver
    \/ MsgCheckLock
    \/ LoadCallState
    \/ ReadTimerHandle
    \/ TimersUnset
    \/ StoreToolResult
    \/ Aggregate
    \/ TimerFires
    \/ SetTimerLock
    \/ ClearTimerLock
    \/ CancelTimeout
    \/ LockExpires
SpecExpiry == InitResults /\ [][NextExpiry]_vars /\ WF_vars(LockExpires)

\* The same conversations when the runtime runs every handler it has invoked
\* to its end, every scheduled timer fires and every awaited response comes.
\* Only the tool blocks are free to answer or not.
Progress ==
    \/ Start
    \/ ModelResponds
    \/ EmitResult
    \/ SendToBlocks
    \/ StoreCallState
    \/ TimersSet
    \/ StoreTimerHandle
    \/ CancelUnexpected
    \/ DeleteCallState
    \/ MsgCheckLock
    \/ LoadCallState
    \/ ReadTimerHandle
    \/ TimersUnset
    \/ StoreToolResult
    \/ Aggregate
    \/ TimerFires
    \/ SetTimerLock
    \/ ClearTimerLock
    \/ CancelTimeout
SpecProgress ==
    InitResults /\ [][NextExpiry]_vars /\ WF_vars(LockExpires) /\ WF_vars(Progress)

\* The first turn of the events that allow more attempts, each of which may
\* fail.
InitBackoff ==
    /\ InitState
    /\ \E c \in Configs, maxRetries \in 1..MaxBackoffRetries :
          /\ c.anthropicApiKey # Undefined /\ c.defaultModel = Undefined
          /\ c.model # Undefined /\ c.maxRetries = Undefined
          /\ ~c.thinking /\ c.thinkingBudget = Undefined
          /\ c.maxTokens = MaxTokensCfg /\ ~c.schema
          /\ config = [c EXCEPT !.maxRetries = <<maxRetries>>]
RespondsInBackoff == Responds(MaxBackoffRetries)
FailsInBackoff == Fails(MaxBackoffRetries)
NextBackoff ==
    \/ Start
    \/ RespondsInBackoff
    \/ FailsInBackoff
    \/ FailCancel
    \/ FailDelete
    \/ EmitResult
SpecBackoff == InitBackoff /\ [][NextBackoff]_vars

\* The tool definition block, called by the conversation's first tool_use
\* response and by another block.
NextTool ==
    \/ Start
    \/ ModelResponds
    \/ SendToBlocks
    \/ ToolCalled
    \/ ProcessResult
    \/ ExecutionExpires
SpecTool == InitResults /\ [][NextTool]_vars

\* ================================================================ claims
\* The handler invocation h takes the step; it ends with the step.
Stepped(h) == CopiesIn(h, procs') < CopiesIn(h, procs)
Exited(h) == Stepped(h) /\ BagCardinality(procs') < BagCardinality(procs)
SameSuspension(a, b) == a.turn = b.turn /\ a.toolCallIds = b.toolCallIds
TimeoutOutcome == Outcome("cancel", "Timeout", "")
Missing(h) ==
    \E i \in 1..Len(h.cs.toolCallIds) :
        ~KvHas(kv, ResultKey(EventId, h.cs.turn, h.cs.toolCallIds[i]))

\* C1: no suspension is resumed both by the timer handler and by a tool-result
\* handler: of the handlers that read its aggregation as complete, at most one
\* calls continueTurn.
C1_OneResumptionPath ==
    \A i, j \in 1..Len(resumes) :
        (resumes[i].by = "timer" /\ resumes[j].by = "msg")
            => ~SameSuspension(resumes[i], resumes[j])

\* C2: a tool result message delivered twice (same tool-call identifier, same
\* payload) resumes the suspension at most once.
C2_DuplicateResumesOnce ==
    \A i, j \in 1..Len(resumes) :
        (/\ resumes[i].by = "msg" /\ resumes[j].by = "msg"
         /\ SameSuspension(resumes[i], resumes[j])
         /\ resumes[i].toolCallId = resumes[j].toolCallId
         /\ resumes[i].result = resumes[j].result) => i = j

\* C3: a started turn that has nothing left to run (no handler in progress, no
\* timer scheduled) has reached a terminal outcome, whether or not tools report.
C3_QuiescentIsTerminal ==
    (pending /\ procs = EmptyBag /\ timers = {}) => pendingLog # <<>>

\* C4: when the only timer handler in progress returns or raises, the lock is
\* no longer held.
C4_LockReleasedOnExit ==
    [][\A h \in Running :
          (/\ h.kind = "timer"
           /\ Exited(h)
           /\ \A g \in Running : g.kind = "timer" => g = h
           /\ CopiesIn(h, procs) = 1) => ~KvHas(kv', LockKey(EventId))]_vars

\* C5: a tool-result handler that finds the lock held when it starts returns at
\* once and leaves the store, the timers, the pending event, the model requests
\* and the resumptions as they were.
C5_LockedHandlerIsNoOp ==
    [][\A h \in Running :
          (h.pc = "m_lock" /\ KvHas(kv, LockKey(EventId)) /\ Stepped(h))
              => /\ Exited(h)
                 /\ UNCHANGED <<kv, timers, pendingLog, requests, dispatched, resumes>>]_vars
C5_Witness ==
    /\ dropped > 0
    /\ KvHas(kv, LockKey(EventId))
    /\ KvHas(kv, CallKey(EventId))

\* C6: loadToolResults reports haveAllResults exactly when every expected
\* identifier has a fragment stored under the very turn asked for.
C6_CompleteIffAllStoredForTurn ==
    \A turn \in 0..MaxRequests :
        \A n \in 0..MaxCalls :
            \A ids \in [1..n -> DispatchedIds] :
                LoadToolResults(kv, EventId, turn, ids).haveAllResults
                    <=> \A i \in 1..n : KvHas(kv, ResultKey(EventId, turn, ids[i]))
\* A handler is about to aggregate, an identifier it expects has a fragment
\* under another turn only, and the aggregation is incomplete.
C6_Witness ==
    \E h \in Running :
        /\ h.pc \in {"m_list", "t_list"}
        /\ \E i \in 1..Len(h.cs.toolCallIds), turn \in 0..MaxRequests :
             /\ turn # h.cs.turn
             /\ KvHas(kv, ResultKey(EventId, turn, h.cs.toolCallIds[i]))
             /\ ~KvHas(kv, ResultKey(EventId, h.cs.turn, h.cs.toolCallIds[i]))
        /\ ~LoadToolResults(kv, EventId, h.cs.turn, h.cs.toolCallIds).haveAllResults

\* C7: for a tool_use response with N tool_use blocks handleModelResponse sends
\* exactly N dispatch messages, one per call with that call's identifier, and
\* the call state it stores lists exactly the dispatched identifiers.
ToolUseIds(content) ==
    {content[i].id : i \in {j \in 1..Len(content) : content[j].type = "tool_use"}}
C7_OneDispatchPerCall ==
    [][\A h \in Running :
          /\ (h.pc = "h_send" /\ Stepped(h)) =>
                LET sent == SubSeq(dispatched', Len(dispatched) + 1, Len(dispatched')) IN
                /\ SubSeq(dispatched', 1, Len(dispatched)) = dispatched
                /\ Len(sent) = Cardinality(ToolUseIds(h.message.content))
                /\ \A id \in ToolUseIds(h.message.content) :
                       Cardinality({i \in 1..Len(sent) : sent[i].toolCallId = id}) = 1
          /\ (h.pc = "h_store" /\ Stepped(h)) =>
                /\ KvHas(kv', CallKey(EventId))
                /\ LET ids == kv'[CallKey(EventId)].toolCallIds IN
                   /\ {ids[i] : i \in 1..Len(ids)} =
                          DispatchedIds \cap ToolUseIds(h.message.content)
                   /\ {ids[i] : i \in 1..Len(ids)} = ToolUseIds(h.message.content)
                   /\ Len(ids) = Cardinality(ToolUseIds(h.message.content))]_vars
C7_Witness ==
    /\ KvHas(kv, CallKey(EventId))
    /\ Len(kv[CallKey(EventId)].toolCallIds) = 2
    /\ Len(dispatched) = 2
    /\ \A i \in 1..2 : dispatched[i].toolCallId = kv[CallKey(EventId)].toolCallIds[i]

\* C8: a timer handler that reads the aggregation as incomplete releases the
\* lock and cancels the pending event with "Timeout"; it issues no model
\* request and leaves the call state and the fragments as they were.
C8_TimeoutCancelsWithoutResuming ==
    [][\A h \in Running :
          (h.kind = "timer" /\ Stepped(h)) =>
              /\ (h.pc = "t_list" /\ Missing(h)) =>
                    /\ BagIn(Handler("timer", "t_clear"), procs')
                    /\ UNCHANGED <<kv, timers, pendingLog, requests, dispatched, resumes>>
              /\ h.pc = "t_clear" =>
                    /\ BagIn(Handler("timer", "t_cancel"), procs')
                    /\ kv' = KvDelete(kv, LockKey(EventId))
                    /\ UNCHANGED <<timers, pendingLog, requests, dispatched, resumes>>
              /\ h.pc = "t_cancel" =>
                    /\ Exited(h)
                    /\ pendingLog' = Append(pendingLog, TimeoutOutcome)
                    /\ UNCHANGED <<kv, timers, requests, dispatched, resumes>>]_vars
C8_Witness ==
    /\ pendingLog = <<TimeoutOutcome>>
    /\ dispatched # <<>>
    /\ Len(requests) = 1
    /\ resumes = <<>>
    /\ KvHas(kv, CallKey(EventId))
    /\ procs = EmptyBag

\* C9: a tool-result handler stores its fragment only after the conversation's
\* timeout is cancelled, registers a timeout when the aggregation is incomplete,
\* and resumes the turn with no timeout left registered.
C9_TimeoutCancelledOnResult ==
    [][\A h \in Running :
          (h.kind = "msg" /\ Stepped(h)) =>
              /\ h.pc = "m_store" => timers = {}
              /\ (h.pc = "m_list" /\ Missing(h)) => BagIn(Handler("msg", "s_tset"), procs')
              /\ (h.pc = "m_list" /\ ~Missing(h)) => timers' = {}]_vars

\* C10: at most one timeout is scheduled for the conversation.
C10_OneActiveTimeout == Cardinality(timers) <= 1

\* The step appends one cancellation with a description to the pending outcomes.
CancelsPending ==
    /\ Len(pendingLog') = Len(pendingLog) + 1
    /\ SubSeq(pendingLog', 1, Len(pendingLog)) = pendingLog
    /\ pendingLog'[Len(pendingLog')].kind = "cancel"
    /\ pendingLog'[Len(pendingLog')].reason # ""
\* The handler leaves executeTurn by an error raised in handleModelResponse.
Raised(h) == h.pc = "x_request" /\ Exited(h)

\* C11: the step a handler takes on a fatal condition (the request failed for
\* good, the stop reason is unexpected, the end_turn response has no text, the
\* extraction is exhausted) cancels the pending event with a description.
C11_FatalConditionCancels ==
    [][\A h \in Running :
          (Stepped(h) /\ (h.pc \in {"x_cancel", "h_cancel", "g_cancel"} \/ Raised(h)))
              => CancelsPending]_vars

\* C12: when a handler has finished the last step of a fatal termination, no
\* call state is stored for the conversation.
C12_NoCallStateAfterFatal ==
    [][\A h \in Running :
          (Stepped(h) /\ (h.pc \in {"x_delete", "h_delete", "g_cancel"} \/ Raised(h)))
              => ~KvHas(kv', CallKey(EventId))]_vars

\* C13: once a resumed conversation was completed with a result and no handler
\* is in progress, no call state is stored for it.
C13_CompletedLeavesNoCallState ==
    (/\ procs = EmptyBag
     /\ resumes # <<>>
     /\ resumes[Len(resumes)].toolCallIds # <<>>
     /\ pendingLog # <<>>
     /\ pendingLog[Len(pendingLog)].kind = "complete")
        => ~KvHas(kv, CallKey(EventId))

\* C14: a stored call state lists at least one outstanding tool call.
C14_OutstandingNonEmpty ==
    KvHas(kv, CallKey(EventId)) => kv[CallKey(EventId)].toolCallIds # <<>>

\* C16: of any two histories of the conversation (of a model request answered
\* or awaited, of the stored call state) one is a prefix of the other.
IsPrefix(a, b) == Len(a) <= Len(b) /\ SubSeq(b, 1, Len(a)) = a
Histories ==
    {requests[i].messages : i \in 1..Len(requests)}
        \cup {h.messages : h \in {g \in Running : g.pc = "x_request"}}
        \cup (IF KvHas(kv, CallKey(EventId)) THEN {kv[CallKey(EventId)].messages} ELSE {})
C16_HistoryAppendOnly ==
    \A a, b \in Histories : IsPrefix(a, b) \/ IsPrefix(b, a)

\* C17: storing a fragment for a turn and tool call that already has one leaves
\* the stored payload as it was.
C17_FragmentWriteOnce ==
    [][\A h \in Running :
          (h.pc = "m_store" /\ Stepped(h)
           /\ KvHas(kv, ResultKey(EventId, h.cs.turn, h.toolCallId)))
              => kv'[ResultKey(EventId, h.cs.turn, h.toolCallId)]
                     = kv[ResultKey(EventId, h.cs.turn, h.toolCallId)]]_vars

\* The handlers a step puts in progress or moves a handler to.
Successors == {g \in BagToSet(procs') : CopiesIn(g, procs') > CopiesIn(g, procs)}
\* The upstream failures the retry policy names as transient.
Transient(error) == error \in {"overloaded", "rate limit", "timeout", "502", "503", "504"}
\* The step of h is a failed attempt of executeTurn, caught as error g.lastError.
FailedAttempt(h, g) == h.pc = "x_request" /\ g.retryCount = h.retryCount + 1

RECURSIVE SumInputTokens(_)
SumInputTokens(messages) ==
    IF messages = <<>> THEN 0
    ELSE Head(messages).usage.input_tokens + SumInputTokens(Tail(messages))
RECURSIVE SumOutputTokens(_)
SumOutputTokens(messages) ==
    IF messages = <<>> THEN 0
    ELSE Head(messages).usage.output_tokens + SumOutputTokens(Tail(messages))

\* C20: an extraction attempt that is answered with a json tool call whose
\* input validates ends the attempts, and no other does; the turn is then
\* completed with the final text, that input, and the end_turn response's usage
\* plus the usage of every attempt answered so far.
C20_ObjectResultAccumulatesUsage ==
    [][\A h \in Running : Stepped(h) =>
          /\ h.pc = "g_request" =>
                \A g \in Successors :
                    IF Len(g.attempts) = Len(h.attempts) + 1
                    THEN LET m == g.attempts[Len(g.attempts)] IN
                         /\ m \in ObjectResponses(h.retryCount + 1)
                         /\ SubSeq(g.attempts, 1, Len(h.attempts)) = h.attempts
                         /\ g.pc = "g_emit" <=> (m.stop_reason = "tool_use" /\ m.input.valid)
                         /\ g.pc = "g_emit" => g.object = m.input
                         /\ g.message = h.message
                    ELSE g.pc # "g_emit"
          /\ h.pc = "g_emit" =>
                pendingLog' = Append(pendingLog,
                    Completed(FindLastText(h.message.content), h.object,
                              h.message.usage.input_tokens + SumInputTokens(h.attempts),
                              h.message.usage.output_tokens
                                  + SumOutputTokens(h.attempts)))]_vars
\* maxRetries = 2, the first attempt's input is invalid, the second validates.
C20_Witness ==
    /\ config.maxRetries = <<2>> /\ config.schema
    /\ Len(requests) = 1
    /\ pendingLog = <<Completed("answer", JsonInput(2, TRUE), 31, 5)>>

\* C15: each time a call state is stored its turn counter is one more than the
\* turn of the request it suspends, and greater than the counter of the call
\* state stored before it.
C15_TurnCounterIncreases ==
    [][\A h \in Running :
          (h.pc = "h_store" /\ Stepped(h)) =>
              /\ KvHas(kv', CallKey(EventId))
              /\ kv'[CallKey(EventId)].turn = h.turn + 1
              /\ KvHas(kv, CallKey(EventId))
                    => kv'[CallKey(EventId)].turn > kv[CallKey(EventId)].turn]_vars

\* C21: generateObject issues at most maxRetries requests, each of them counted;
\* when the attempts are exhausted it cancels the pending event with the last
\* error raised by an attempt, or with "Failed to generate object" when none
\* raised, and completes nothing.
C21_ExtractionTerminates ==
    [][\A h \in Running :
          /\ h.pc = "g_request" => h.retryCount < h.maxRetries
          /\ Stepped(h) =>
                /\ h.pc = "g_request" =>
                      \A g \in Successors :
                          /\ g.pc # "g_emit" => g.retryCount = h.retryCount + 1
                          /\ g.pc = "g_cancel" => g.retryCount = h.maxRetries
                          /\ IF Len(g.attempts) = Len(h.attempts) + 1
                             THEN g.lastError = h.lastError
                             ELSE g.lastError \in Errors
                /\ h.pc = "g_cancel" =>
                      /\ pendingLog' = Append(pendingLog,
                             IF h.lastError = ""
                             THEN Outcome("cancel", "Failed to generate object", "")
                             ELSE Outcome("cancel", "Object generation failed",
                                          h.lastError))
                      /\ \A g \in Successors : g.pc = "t_unlock"]_vars
\* maxRetries = 2: one attempt raised, the other was answered without a valid
\* object, and the turn has failed with the error raised.
C21_Witness ==
    /\ config.schema /\ config.maxRetries = <<2>>
    /\ Len(requests) = 1
    /\ pendingLog = <<Outcome("cancel", "Object generation failed", "invalid request")>>
    /\ procs = EmptyBag

\* C22: a handler that reads the aggregation as complete resumes with the
\* history of the call state followed by one user message holding, for each
\* tool call of the history's last message and in that order, a tool_result
\* with the call's identifier and its stored payload; that history is the one
\* of the request issued next.
C22_ResumedHistory ==
    [][\A h \in Running : Stepped(h) =>
          /\ (h.pc \in {"m_list", "t_list"} /\ ~Missing(h)) =>
                LET ids == h.cs.toolCallIds
                    last == h.cs.messages[Len(h.cs.messages)]
                    results ==
                        [k \in 1..Len(ids) |->
                            ToolResultBlock(ids[k],
                                kv[ResultKey(EventId, h.cs.turn, ids[k])].result)]
                IN  /\ ids = ToolCallIds(ToolCalls(last))
                    /\ \A k \in 1..Len(ids) : ids[k] \in DispatchedIds
                    /\ \A g \in Successors :
                          g.messages = Append(h.cs.messages, Message("user", results))
          /\ h.pc = "x_request" => requests' = Append(requests, Request(h))]_vars
\* Two tool calls; the result of the second arrived first, and the resumed
\* request lists the results in the order of the calls.
C22_Witness ==
    /\ Len(requests) = 2
    /\ Len(requests[2].messages) = 3
    /\ requests[2].messages[3] =
           Message("user", <<ToolResultBlock(11, "r2"), ToolResultBlock(12, "r1")>>)

\* C23: an end_turn response whose last text block has text, with no schema
\* asked for, goes straight to emitResult, which completes the pending event
\* with that text, no object and the response's usage; the step sends no
\* dispatch message, writes nothing to the store and sets no timer.
C23_TextFinalizesImmediately ==
    [][\A h \in Running :
          /\ (h.pc = "x_request" /\ ~h.schema) =>
                \A m \in ModelResponses(Len(requests) + 1) :
                    LET c == m.content IN
                    (/\ m.stop_reason = "end_turn"
                     /\ c # <<>>
                     /\ c[Len(c)].type = "text"
                     /\ c[Len(c)].text # "")
                        => HandleModelResponse(h, m) = [h EXCEPT !.pc = "h_emit", !.message = m]
          /\ (h.pc = "h_emit" /\ Stepped(h)) =>
                LET c == h.message.content IN
                /\ h.message.stop_reason = "end_turn"
                /\ pendingLog' = Append(pendingLog,
                       [kind |-> "complete", reason |-> "", detail |-> c[Len(c)].text,
                        object |-> NoObject,
                        usage |-> [input_tokens |-> h.message.usage.input_tokens,
                                   output_tokens |-> h.message.usage.output_tokens]])
                /\ UNCHANGED <<kv, timers, dispatched, requests, resumes>>
                /\ \A g \in Successors : g.pc = "t_unlock"]_vars
\* The first response is end_turn with text: the conversation is completed and
\* nothing was dispatched, stored or scheduled.
C23_Witness ==
    /\ ~config.schema
    /\ Len(requests) = 1
    /\ pendingLog = <<Completed("answer", NoObject, 1, 2)>>
    /\ kv = <<>> /\ timers = {} /\ dispatched = <<>>
    /\ procs = EmptyBag

\* The configuration errors: no API key, no model and no default model,
\* thinking with a budget that is absent or not less than max tokens.
ConfigError(c) ==
    \/ c.anthropicApiKey = Undefined
    \/ c.model = Undefined /\ c.defaultModel = Undefined
    \/ /\ c.thinking
       /\ \/ c.thinkingBudget = Undefined
          \/ c.thinkingBudget # Undefined /\ c.thinkingBudget[1] >= c.maxTokens

\* C24: an event whose configuration has an error is rejected by onEvent with
\* an error; no pending event is created for it, no handler goes on, no model
\* request is issued, nothing is stored, scheduled or dispatched.
C24_ConfigErrorRejected ==
    /\ [](ConfigError(config) =>
             /\ ~pending /\ procs = EmptyBag /\ pendingLog = <<>>
             /\ requests = <<>> /\ dispatched = <<>>
             /\ kv = <<>> /\ timers = {})
    /\ [][ConfigError(config) => rejected' # ""]_vars
\* Thinking is on with a budget equal to max tokens, and the event was rejected.
C24_Witness ==
    /\ config.anthropicApiKey # Undefined /\ config.model # Undefined
    /\ config.thinking /\ config.thinkingBudget = <<config.maxTokens>>
    /\ rejected = "You need to set thinking budget to a value less than max tokens"
    /\ ~pending /\ requests = <<>> /\ kv = <<>>

\* The text a result value is sent as.
ResultText(value) ==
    CASE value.type = "string" -> value.str
      [] value = NumberValue(7) -> "7"
      [] value = BooleanValue(TRUE) -> "true"
      [] OTHER -> "?"

\* C28: the tool definition block records each dispatch message it receives
\* under a fresh key and never alters the record; processResult for the echo of
\* a recorded execution sends one result message, to the recorded calling block
\* only, with the recorded conversation and tool-call identifiers and the result
\* as text; when the record is gone it sends nothing; an event that is no echo
\* raises and sends nothing.
C28_ResultCorrelatesWithCall ==
    [][/\ onCall' # onCall =>
             LET e == onCall'[Len(onCall')] IN
             /\ ~KvHas(executions, e.executionKey)
             /\ KvHas(executions', e.executionKey)
             /\ \E m \in ToolInbox :
                    executions'[e.executionKey] =
                        [eventId |-> m.eventId, toolCallId |-> m.toolCallId,
                         blockId |-> m.blockId]
       /\ \A k \in DOMAIN executions \cap DOMAIN executions' :
             executions'[k] = executions[k]
       /\ processed' # processed =>
             LET p == processed'[Len(processed')] IN
             IF p.echo = NoEcho THEN p.raised /\ p.sent = <<>>
             ELSE /\ ~p.raised
                  /\ IF KvHas(executions, p.echo)
                     THEN /\ Len(p.sent) = 1
                          /\ p.sent[1].blockIds = <<executions[p.echo].blockId>>
                          /\ p.sent[1].body =
                                 [result |-> ResultText(p.result),
                                  eventId |-> executions[p.echo].eventId,
                                  toolCallId |-> executions[p.echo].toolCallId]
                     ELSE p.sent = <<>>]_vars
\* The tool was called by the conversation and by another block; the result of
\* the other block's call, a number, went to that block as text, and the result
\* for an execution whose record had expired went nowhere.
C28_Witness ==
    /\ Len(dispatched) > 0
    /\ \E i \in 1..Len(processed) :
          /\ processed[i].result = NumberValue(7)
          /\ processed[i].sent =
                 <<[blockIds |-> <<"other">>,
                    body |-> [result |-> "7", eventId |-> "ev2",
                              toolCallId |-> ToolCallId(1, 1)]]>>
    /\ \E j \in 1..Len(processed) :
          /\ processed[j].echo # NoEcho
          /\ processed[j].sent = <<>>
          /\ \E k \in 1..Len(onCall) :
                /\ onCall[k].executionKey = processed[j].echo
                /\ onCall[k].parentEventId = EventId

\* C26: the delay executeTurn waits before its k-th retry is
\* min(1000 * 2^(k-1), 10000) ms: twice the delay before, greater than it until
\* the cap is reached, and never more than 10000.
C26_BackoffDoublesToCap ==
    [][\A h \in Running :
          (h.pc = "x_request" /\ Stepped(h)) =>
              \A g \in Successors :
                  (FailedAttempt(h, g) /\ g.pc = "x_request") =>
                      LET k == g.retryCount IN
                      /\ k = h.retryCount + 1
                      /\ g.delay \in {1000 * 2 ^ (k - 1), 10000}
                      /\ g.delay <= 1000 * 2 ^ (k - 1)
                      /\ g.delay <= 10000
                      /\ (k > 1 /\ h.delay < 10000) => g.delay > h.delay
                      /\ (k > 1 /\ g.delay < 10000) => g.delay = 2 * h.delay]_vars
\* The fifth retry is waited for: 10000 ms, after 8000 ms for the fourth.
C26_Witness ==
    \E h \in Running :
        h.pc = "x_request" /\ h.retryCount = 5 /\ h.delay = 10000 /\ Len(requests) = 5

\* C29: the pending event is given at most one terminal outcome.
C29_OneTerminalOutcome == Len(pendingLog) <= 1

\* The response (by the number of its request) a tool call belongs to, and the
\* tool calls dispatched last.
RequestOf(toolCallId) == toolCallId \div 10
LastDispatched ==
    {id \in DispatchedIds :
        RequestOf(id) = RequestOf(dispatched[Len(dispatched)].toolCallId)}

\* C30: when a tool-result handler loads the call state for a result of one of
\* the tool calls dispatched last, the call state stored is the one of that
\* dispatch: it lists the tool call, and its turn counter is one more than the
\* turn of the request whose response made the call.
C30_ResultFindsItsCallState ==
    [][\A h \in Running :
          (h.kind = "msg" /\ h.pc = "m_load" /\ Stepped(h)
           /\ h.toolCallId \in LastDispatched) =>
              /\ KvHas(kv, CallKey(EventId))
              /\ \E i \in 1..Len(kv[CallKey(EventId)].toolCallIds) :
                    kv[CallKey(EventId)].toolCallIds[i] = h.toolCallId
              /\ kv[CallKey(EventId)].turn
                    = requests[RequestOf(h.toolCallId)].turn + 1]_vars

\* The turn a call state and the fragments stored for it resume to: what the
\* next request is made of, whoever makes it.
ResumedTurn(cs, store) ==
    [turn |-> cs.turn,
     messages |->
        Append(cs.messages,
               Message("user",
                       [k \in 1..Len(cs.toolCallIds) |->
                           ToolResultBlock(cs.toolCallIds[k],
                               store[ResultKey(EventId, cs.turn, cs.toolCallIds[k])].result)])),
     maxRetries |-> cs.maxRetries,
     schema |-> cs.schema]
TurnOf(h) ==
    [turn |-> h.turn, messages |-> h.messages, maxRetries |-> h.maxRetries,
     schema |-> h.schema]

\* C27: the turn a handler resumes with is determined by the call state it
\* loaded and the fragments stored for it, the same for the timer handler and
\* the tool-result handler; and the request issued carries that turn's history
\* and turn counter.
C27_ResumptionIsDeterministic ==
    [][\A h \in Running : Stepped(h) =>
          /\ (h.pc \in {"m_list", "t_list"} /\ ~Missing(h)) =>
                \A g \in Successors :
                    /\ TurnOf(g) = ResumedTurn(h.cs, kv)
                    /\ g.retryCount = 0
                    /\ g.pc = IF 0 < h.cs.maxRetries THEN "x_request" ELSE "x_cancel"
          /\ h.pc = "x_request" =>
                /\ Len(requests') = Len(requests) + 1
                /\ requests'[Len(requests')].turn = h.turn
                /\ requests'[Len(requests')].messages = h.messages]_vars
\* A timer handler and a tool-result handler have both resumed the suspension
\* of one tool call whose result is stored, and are about to issue the same
\* request.
C27_Witness ==
    \E h, g \in Running :
        /\ h.kind = "timer" /\ g.kind = "msg"
        /\ h.pc = "x_request" /\ g.pc = "x_request"
        /\ TurnOf(h) = TurnOf(g)
        /\ Len(h.messages) = 3
        /\ h.messages[3].content # <<>>

\* The lock is held and no timer handler is in progress to release it.
AbandonedLock ==
    /\ KvHas(kv, LockKey(EventId))
    /\ \A h \in Running : h.kind # "timer"

AllToolCallIds == {ToolCallId(n, k) : n \in 1..MaxRequests, k \in 1..MaxCalls}
\* The stored call state lists the tool call as outstanding.
Outstanding(id) ==
    /\ KvHas(kv, CallKey(EventId))
    /\ \E i \in 1..Len(kv[CallKey(EventId)].toolCallIds) :
          kv[CallKey(EventId)].toolCallIds[i] = id
\* A result message for the tool call has been delivered and its handler starts.
Arrived(id) ==
    \E h \in Running : h.kind = "msg" /\ h.pc = "m_lock" /\ h.toolCallId = id
FragmentStored(id) ==
    \E k \in DOMAIN kv : k[1] = "result" /\ kv[k].toolCallId = id

\* C31: when a result message arrives for a tool call that the stored call
\* state lists as outstanding, a fragment for that call is eventually stored,
\* whether or not the lock is held when it arrives.
C31_ResultEventuallyStored ==
    \A id \in AllToolCallIds : (Arrived(id) /\ Outstanding(id)) ~> FragmentStored(id)

\* A message handler that has loaded the conversation's current call state and
\* whose tool-call identifier is not in that state's outstanding set.
StaleHandler(h) ==
    /\ h.kind = "msg"
    /\ h.pc \in {"m_unset", "m_store", "m_list"}
    /\ KvHas(kv, CallKey(EventId))
    /\ kv[CallKey(EventId)] = h.cs
    /\ \A i \in 1..Len(h.cs.toolCallIds) : h.cs.toolCallIds[i] # h.toolCallId

\* C32: a result message whose tool-call identifier is not in the outstanding
\* set of the current call state has no effect on the suspension: its handler's
\* steps store no fragment, unset no timer and do not go on to set a new one.
C32_StaleResultNoEffect ==
    [][\A h \in Running :
         (StaleHandler(h) /\ Stepped(h)) =>
            /\ kv' = kv
            /\ timers' = timers
            /\ CopiesIn(Handler("msg", "s_tset"), procs')
                 <= CopiesIn(Handler("msg", "s_tset"), procs)]_vars

====
